---- MODULE Spec2Model ----
(***************************************************************************)
(* Model of friendly-telegram/main.py: the per-session start-up and run    *)
(* coroutine amain (setup mode and normal mode), the routing of inbound    *)
(* events to the dispatcher callbacks attached by amain, and the           *)
(* cross-session broadcast collection SuperList.                           *)
(*                                                                         *)
(* One action is one atomic stretch of a coroutine: it completes the await *)
(* the coroutine is suspended on and runs the code up to the next await.   *)
(* The store front-end, the backend, the loader and the dispatcher are     *)
(* imported by main.py from sibling modules; what they do inside a call is *)
(* taken from the specification.                                           *)
(***************************************************************************)
EXTENDS Naturals, Integers, Sequences, FiniteSets, TLC

VARIABLES
    setup,          \* arguments.setup
    web_only,       \* arguments.web_only
    web,            \* whether main() built a web object (shared by all sessions)
    pc,             \* pc[s]: the await amain(s) is suspended on
    remote,         \* remote[s]: the blob held by the session's remote storage
    storageDeleted, \* storageDeleted[s]: DeleteChannelRequest was issued
    pdb,            \* pdb[s]: setup mode's parsed / configured document
    uploads,        \* uploads[s]: blobs handed to db.do_upload by amain
    directWrite,    \* directWrite[s]: amain's own db.do_upload is in progress
    feInit,         \* feInit[s]: init() of the session's front-end has completed
    doc,            \* doc[s]: in-memory document of the front-end
    pending,        \* pending[s]: a flush of the front-end is scheduled
    flushing,       \* flushing[s]: a front-end write is in progress
    flushBlob,      \* flushBlob[s]: the blob that write is sending
    closeCalls,     \* closeCalls[s]: number of close() calls on the front-end
    lifecycle,      \* lifecycle[s]: store/module lifecycle calls made, in order
    handlers,       \* handlers[s]: event builders attached to the client
    tasks,          \* tasks[s]: update-dispatch tasks of the client, arrival order
    disconnected,   \* disconnected[s]: the client has disconnected
    handlerLevel,   \* level of the process-wide logging handlers
    logs,           \* logs[s]: records session s got through the handlers
    webLoaders,     \* sessions added to the shared web object
    slObjs,         \* SuperList: what calling the attribute does on each member
    slAttr,         \* the attribute name looked up on the SuperList
    slKind,         \* what that attribute is on the members
    slState,        \* idle, running, awaiting, returned or raised
    slRead,         \* what __getattribute__ returned
    slCalls,        \* the members called so far, in order
    slResults       \* the results collected so far / the list returned

vars == <<setup, web_only, web, pc, remote, storageDeleted, pdb, uploads,
          directWrite, feInit, doc, pending, flushing, flushBlob, closeCalls,
          lifecycle, handlers, tasks, disconnected, handlerLevel, logs,
          webLoaders, slObjs, slAttr, slKind, slState, slRead, slCalls,
          slResults>>

slVars == <<slObjs, slAttr, slKind, slState, slRead, slCalls, slResults>>

mainVars == <<setup, web_only, web, pc, remote, storageDeleted, pdb, uploads,
          directWrite, feInit, doc, pending, flushing, flushBlob, closeCalls,
          lifecycle, handlers, tasks, disconnected, handlerLevel, logs,
          webLoaders>>

----------------------------------------------------------------------------
(* Bounds *)

NumSessions == 2
MaxEvents == 2
MaxClients == 3

Sessions == 1..NumSessions

----------------------------------------------------------------------------
(* Documents and their remote encoding *)

\* do_download found nothing (Python None)
NoBlob == "None"

\* logging levels used by amain
DEBUG == 10
INFO == 20
WARNING == 30
CRITICAL == 50
\* logging.exception logs at ERROR
ERROR == 40

\* doc_empty is {}; doc_debug is {"friendly-telegram.main": {"loglevel": 10}},
\* the log level under the namespace amain reads it from (its __name__);
\* doc_noedit is {"reevaluate_edits": false}
Docs == {"doc_empty", "doc_debug", "doc_noedit"}

Blobs == {NoBlob, "{}", "{\"friendly-telegram.main\": {\"loglevel\": 10}}",
          "{\"reevaluate_edits\": false}", "garbage"}

\* json.dumps of a document (None dumps as null)
json_dumps(d) ==
    CASE d = "doc_empty" -> "{}"
      [] d = "doc_debug" -> "{\"friendly-telegram.main\": {\"loglevel\": 10}}"
      [] d = "doc_noedit" -> "{\"reevaluate_edits\": false}"
      [] OTHER -> "null"

\* json.loads of a downloaded blob: the document, or the exception raised
json_loads(b) ==
    CASE b = NoBlob -> [raised |-> "TypeError", val |-> "doc_empty"]
      [] b = "{}" -> [raised |-> "no", val |-> "doc_empty"]
      [] b = "{\"friendly-telegram.main\": {\"loglevel\": 10}}" -> [raised |-> "no", val |-> "doc_debug"]
      [] b = "{\"reevaluate_edits\": false}" -> [raised |-> "no", val |-> "doc_noedit"]
      [] OTHER -> [raised |-> "JSONDecodeError", val |-> "doc_empty"]

\* lines 504-507
ParseDownloaded(jdb) ==
    IF json_loads(jdb).raised \in {"JSONDecodeError", "TypeError"}
    THEN "doc_empty"
    ELSE json_loads(jdb).val

\* db.get(__name__, "loglevel", logging.WARNING), __name__ being
\* friendly-telegram.main: the document's value under that namespace, else 30
LogLevelOf(d) == IF d = "doc_debug" THEN DEBUG ELSE WARNING

\* the module subsystem's "re-evaluate edits" setting of a document
\* (default: yes)
ReevaluateEdits(d) == d # "doc_noedit"

\* the records among msgs (each <<text, level>>) that pass the process-wide
\* handlers at their current level
Passing(msgs) == {m[1] : m \in {x \in msgs : x[2] >= handlerLevel}}

----------------------------------------------------------------------------
(* Event routing: the builders amain attaches, lines 575-583 *)

EventKinds == {"NewMessage", "NewMessageFwd", "MessageEdited", "ChatAction"}

\* faulty variant: the watcher pass is also attached to edited messages
AttachedHandlers_WatchEdits(s) ==
    << [cb |-> "handle_incoming", ev |-> "NewMessage", forwards |-> "any"],
       [cb |-> "handle_incoming", ev |-> "ChatAction", forwards |-> "any"],
       [cb |-> "handle_incoming", ev |-> "MessageEdited", forwards |-> "any"],
       [cb |-> "handle_command", ev |-> "NewMessage", forwards |-> "no"],
       [cb |-> "handle_command", ev |-> "MessageEdited", forwards |-> "any"] >>

\* faulty variant: the edited-message handler is attached only when the document
\* asks for edits to be re-evaluated
AttachedHandlers_Gated(s) ==
    << [cb |-> "handle_incoming", ev |-> "NewMessage", forwards |-> "any"],
       [cb |-> "handle_incoming", ev |-> "ChatAction", forwards |-> "any"],
       [cb |-> "handle_command", ev |-> "NewMessage", forwards |-> "no"] >>
    \o (IF ReevaluateEdits(doc[s])
        THEN << [cb |-> "handle_command", ev |-> "MessageEdited",
                 forwards |-> "any"] >>
        ELSE << >>)

\* the (callback, event builder) pairs in the order amain adds them
AttachedHandlers(s) ==
    << [cb |-> "handle_incoming", ev |-> "NewMessage", forwards |-> "any"],
       [cb |-> "handle_incoming", ev |-> "ChatAction", forwards |-> "any"],
       [cb |-> "handle_command", ev |-> "NewMessage", forwards |-> "no"],
       [cb |-> "handle_command", ev |-> "MessageEdited", forwards |-> "any"] >>

\* does the builder accept an event of this kind
Accepts(b, kind) ==
    CASE b.ev = "NewMessage" ->
            \/ kind = "NewMessage"
            \/ kind = "NewMessageFwd" /\ b.forwards = "any"
      [] b.ev = "MessageEdited" -> kind = "MessageEdited"
      [] b.ev = "ChatAction" -> kind = "ChatAction"
      [] OTHER -> FALSE

\* index of the first builder at or after position i accepting kind, or 0
NextMatch(hs, i, kind) ==
    LET c == {j \in i..Len(hs) : Accepts(hs[j], kind)}
    IN IF c = {} THEN 0 ELSE CHOOSE j \in c : \A k \in c : j <= k

\* a dispatch task runs the client's builders in order from position i: it
\* enters the next accepting callback, or ends when none is left
Advance(t, hs, i) ==
    LET j == NextMatch(hs, i, t.ev)
    IN IF j = 0
       THEN [t EXCEPT !.st = "done", !.run = "none"]
       ELSE [t EXCEPT !.st = "active", !.run = hs[j].cb, !.idx = j,
                      !.inv = @ \cup {hs[j].cb}]

\* a task as the client creates it for an arriving update
NewTask(kind) ==
    [ev |-> kind, st |-> "queued", run |-> "none", idx |-> 0, inv |-> {},
     att |-> FALSE]

TotalEvents == LET RECURSIVE Sum(_)
                   Sum(n) == IF n = 0 THEN 0 ELSE Len(tasks[n]) + Sum(n - 1)
               IN Sum(NumSessions)

----------------------------------------------------------------------------
(* amain: common start, lines 490-498 *)

\* await client.start() returns; setup mode goes on to db.init, normal mode
\* wraps the backend in the front-end and awaits its init()
StartDone(s) ==
    /\ pc[s] = "start"
    /\ pc' = [pc EXCEPT ![s] = IF setup THEN "db_init" ELSE "fe_init"]
    /\ UNCHANGED <<setup, web_only, web, remote, storageDeleted, pdb, uploads,
                   directWrite, feInit, doc, pending, flushing, flushBlob,
                   closeCalls, lifecycle, handlers, tasks, disconnected,
                   handlerLevel, logs, webLoaders, slVars>>

----------------------------------------------------------------------------
(* amain: setup mode, lines 500-539 *)

\* await db.init(lambda e: None) returns; db.do_download() is awaited
BackendInitDone(s) ==
    /\ pc[s] = "db_init"
    /\ pc' = [pc EXCEPT ![s] = "download"]
    /\ UNCHANGED <<setup, web_only, web, remote, storageDeleted, pdb, uploads,
                   directWrite, feInit, doc, pending, flushing, flushBlob,
                   closeCalls, lifecycle, handlers, tasks, disconnected,
                   handlerLevel, logs, webLoaders, slVars>>

\* do_download returns jdb; it is parsed (504-507); Modules and Translator
\* are built and babelfish.init is awaited
DownloadDone(s) ==
    /\ pc[s] = "download"
    /\ pdb' = [pdb EXCEPT ![s] = ParseDownloaded(remote[s])]
    /\ pc' = [pc EXCEPT ![s] = "babelfish_setup"]
    /\ UNCHANGED <<setup, web_only, web, remote, storageDeleted, uploads,
                   directWrite, feInit, doc, pending, flushing, flushBlob,
                   closeCalls, lifecycle, handlers, tasks, disconnected,
                   handlerLevel, logs, webLoaders, slVars>>

\* babelfish.init returns; modules.register_all(); fdb = Database(db, True);
\* fdb.init() is awaited
BabelfishDoneSetup(s) ==
    /\ pc[s] = "babelfish_setup"
    /\ lifecycle' = [lifecycle EXCEPT ![s] = Append(@, "register_all")]
    /\ pc' = [pc EXCEPT ![s] = "fdb_init"]
    /\ UNCHANGED <<setup, web_only, web, remote, storageDeleted, pdb, uploads,
                   directWrite, feInit, doc, pending, flushing, flushBlob,
                   closeCalls, handlers, tasks, disconnected,
                   handlerLevel, logs, webLoaders, slVars>>

\* the calls of lines 515-516: send_config, then send_ready (awaited)
ConfigureAndReady(l) == l \o <<"send_config", "send_ready">>

\* fdb.init() returns; send_config; send_ready is awaited
FdbInitDone(s) ==
    /\ pc[s] = "fdb_init"
    /\ feInit' = [feInit EXCEPT ![s] = TRUE]
    /\ lifecycle' = [lifecycle EXCEPT ![s] = ConfigureAndReady(Append(@, "init"))]
    /\ pc' = [pc EXCEPT ![s] = "send_ready_setup"]
    /\ UNCHANGED <<setup, web_only, web, remote, storageDeleted, pdb, uploads,
                   directWrite, doc, pending, flushing, flushBlob,
                   closeCalls, handlers, tasks, disconnected,
                   handlerLevel, logs, webLoaders, slVars>>

\* what the configurator can return: a document, or None
ConfigResults == Docs \cup {"None"}

\* faulty variant: the test of line 530 is inverted
AfterRunConfig_Inverted(r) == IF r = "None" THEN "upload" ELSE "delete"

\* faulty variant: the early return of line 532 is missing, None is uploaded too
AfterRunConfig_NoReturn(r) == "upload"

\* lines 530-535: a None result deletes the storage, anything else is uploaded
AfterRunConfig(r) == IF r = "None" THEN "delete" ELSE "upload"

\* send_ready returns; the handlers are set to level 50; run_config runs
\* (blocking) and returns r; the storage is deleted or the upload is started
SendReadyDoneSetup(s, r) ==
    /\ pc[s] = "send_ready_setup"
    /\ r \in ConfigResults
    /\ handlerLevel' = CRITICAL
    /\ pdb' = [pdb EXCEPT ![s] = r]
    /\ pc' = [pc EXCEPT ![s] = AfterRunConfig(r)]
    /\ directWrite' = [directWrite EXCEPT ![s] = (AfterRunConfig(r) = "upload")]
    /\ UNCHANGED <<setup, web_only, web, remote, storageDeleted, uploads,
                   feInit, doc, pending, flushing, flushBlob,
                   closeCalls, lifecycle, handlers, tasks, disconnected,
                   logs, webLoaders, slVars>>

\* DeleteChannelRequest(db.db) returns; amain returns None
DeleteDone(s) ==
    /\ pc[s] = "delete"
    /\ storageDeleted' = [storageDeleted EXCEPT ![s] = TRUE]
    /\ remote' = [remote EXCEPT ![s] = NoBlob]
    /\ pc' = [pc EXCEPT ![s] = "done"]
    /\ UNCHANGED <<setup, web_only, web, pdb, uploads,
                   directWrite, feInit, doc, pending, flushing, flushBlob,
                   closeCalls, lifecycle, handlers, tasks, disconnected,
                   handlerLevel, logs, webLoaders, slVars>>

\* db.do_upload(json.dumps(pdb)) returns (MessageNotModifiedError, raised
\* when the storage already holds that text, is swallowed); amain returns
UploadDone(s) ==
    /\ pc[s] = "upload"
    /\ remote' = [remote EXCEPT ![s] = json_dumps(pdb[s])]
    /\ uploads' = [uploads EXCEPT ![s] = Append(@, json_dumps(pdb[s]))]
    /\ directWrite' = [directWrite EXCEPT ![s] = FALSE]
    /\ pc' = [pc EXCEPT ![s] = "done"]
    /\ UNCHANGED <<setup, web_only, web, storageDeleted, pdb,
                   feInit, doc, pending, flushing, flushBlob,
                   closeCalls, lifecycle, handlers, tasks, disconnected,
                   handlerLevel, logs, webLoaders, slVars>>

----------------------------------------------------------------------------
(* amain: normal mode, lines 541-639 *)

\* init() of the store front-end: loads the remote document; a blob that is
\* absent or does not parse gives the empty document and a logged warning
FrontendLoad(b) ==
    LET r == json_loads(b)
    IN IF r.raised = "no" THEN [doc |-> r.val, warned |-> FALSE]
       ELSE [doc |-> "doc_empty", warned |-> TRUE]

\* faulty variant: send_ready is called before send_config
StartModules_ReadyFirst(l) == l \o <<"register_all", "send_ready", "send_config">>

\* the three module lifecycle calls of lines 585-589, in the order made
StartModules(l) == l \o <<"register_all", "send_config", "send_ready">>

\* lines 567-572: unless web_only, the dispatcher is built and its init
\* awaited; otherwise amain runs on to the module lifecycle calls
AfterWeb == IF ~web_only THEN "disp_init" ELSE "send_ready"

\* lines 564-566: with a web object, web.add_loader is awaited first
AfterBabelfish == IF web THEN "web_add" ELSE AfterWeb

\* the lifecycle calls made when amain runs on to the await of send_ready
LifecycleAt(s, next) ==
    IF next = "send_ready"
    THEN [lifecycle EXCEPT ![s] = StartModules(@)]
    ELSE lifecycle

\* db.init() of the front-end returns; lines 546-559: two records are
\* logged, the handlers are set to the document's level, the Translator is
\* built and babelfish.init is awaited
FeInitDone(s) ==
    /\ pc[s] = "fe_init"
    /\ LET ld == FrontendLoad(remote[s])
       IN /\ doc' = [doc EXCEPT ![s] = ld.doc]
          /\ logs' = [logs EXCEPT ![s] = @ \cup Passing(
                        {<<"got db", DEBUG>>,
                         <<"Loading logging config...", INFO>>}
                        \cup (IF ld.warned
                              THEN {<<"store corrupt", WARNING>>} ELSE {}))]
          /\ handlerLevel' = LogLevelOf(ld.doc)
    /\ feInit' = [feInit EXCEPT ![s] = TRUE]
    /\ lifecycle' = [lifecycle EXCEPT ![s] = Append(@, "init")]
    /\ pc' = [pc EXCEPT ![s] = "babelfish"]
    /\ UNCHANGED <<setup, web_only, web, remote, storageDeleted, pdb,
                   uploads, directWrite, pending, flushing, flushBlob,
                   closeCalls, handlers, tasks, disconnected, webLoaders,
                   slVars>>

\* babelfish.init returns; Modules() is built
BabelfishDone(s) ==
    /\ pc[s] = "babelfish"
    /\ pc' = [pc EXCEPT ![s] = AfterBabelfish]
    /\ lifecycle' = LifecycleAt(s, AfterBabelfish)
    /\ UNCHANGED <<setup, web_only, web, remote, storageDeleted, pdb,
                   uploads, directWrite, feInit, doc, pending, flushing,
                   flushBlob, closeCalls, handlers, tasks, disconnected,
                   handlerLevel, logs, webLoaders, slVars>>

\* the loaders of the shared web object once this session is added
AddLoader(s) == webLoaders \cup {s}

\* web.add_loader(client, modules, db) returns; web.start_if_ready is awaited
WebAddDone(s) ==
    /\ pc[s] = "web_add"
    /\ webLoaders' = AddLoader(s)
    /\ pc' = [pc EXCEPT ![s] = "web_start"]
    /\ UNCHANGED <<setup, web_only, web, remote, storageDeleted, pdb,
                   uploads, directWrite, feInit, doc, pending, flushing,
                   flushBlob, closeCalls, lifecycle, handlers, tasks,
                   disconnected, handlerLevel, logs, slVars>>

\* web.start_if_ready returns
WebStartDone(s) ==
    /\ pc[s] = "web_start"
    /\ pc' = [pc EXCEPT ![s] = AfterWeb]
    /\ lifecycle' = LifecycleAt(s, AfterWeb)
    /\ UNCHANGED <<setup, web_only, web, remote, storageDeleted, pdb,
                   uploads, directWrite, feInit, doc, pending, flushing,
                   flushBlob, closeCalls, handlers, tasks, disconnected,
                   handlerLevel, logs, webLoaders, slVars>>

\* faulty variant: the handlers are attached to every client of allclients
AddEventHandlers_AllClients(s) ==
    [t \in Sessions |-> handlers[t] \o AttachedHandlers(t)]

\* the client's builders after lines 575-583
AddEventHandlers(s) == [handlers EXCEPT ![s] = @ \o AttachedHandlers(s)]

\* dispatcher.init(client) returns; the four handlers are attached, then
\* register_all, send_config, and send_ready is awaited
DispInitDone(s) ==
    /\ pc[s] = "disp_init"
    /\ handlers' = AddEventHandlers(s)
    /\ lifecycle' = LifecycleAt(s, "send_ready")
    /\ pc' = [pc EXCEPT ![s] = "send_ready"]
    /\ UNCHANGED <<setup, web_only, web, remote, storageDeleted, pdb,
                   uploads, directWrite, feInit, doc, pending, flushing,
                   flushBlob, closeCalls, tasks, disconnected, handlerLevel,
                   logs, webLoaders, slVars>>

\* the record the except clause of lines 628-631 logs
BadgeError == {<<"Badge error", ERROR>>}

\* the records of lines 621-627
BadgeInfo == {<<"=== BUILD ===", INFO>>, <<"=== VERSION ===", INFO>>,
              <<"=== PLATFORM ===", INFO>>}

\* send_ready returns; first is true in the only call amain_wrapper makes,
\* so the badge block of lines 591-631 runs.  Either import git or the
\* repository lookup raises (ok false): "Badge error" is logged and
\* client.run_until_disconnected() is awaited; or client.get_me(True) is
\* awaited for the logo
SendReadyDone(s, ok) ==
    /\ pc[s] = "send_ready"
    /\ ok \in BOOLEAN
    /\ pc' = [pc EXCEPT ![s] = IF ok THEN "get_me" ELSE "run"]
    /\ logs' = [logs EXCEPT ![s] =
                   @ \cup (IF ok THEN {} ELSE Passing(BadgeError))]
    /\ UNCHANGED <<setup, web_only, web, remote, storageDeleted, pdb, uploads,
                   directWrite, feInit, doc, pending, flushing, flushBlob,
                   closeCalls, lifecycle, handlers, tasks, disconnected,
                   handlerLevel, webLoaders, slVars>>

\* client.get_me returns (ok) and the logo is printed and the build, version
\* and platform are logged, or it raises and "Badge error" is logged;
\* client.run_until_disconnected() is awaited
GetMeDone(s, ok) ==
    /\ pc[s] = "get_me"
    /\ ok \in BOOLEAN
    /\ pc' = [pc EXCEPT ![s] = "run"]
    /\ logs' = [logs EXCEPT ![s] =
                   @ \cup Passing(IF ok THEN BadgeInfo ELSE BadgeError)]
    /\ UNCHANGED <<setup, web_only, web, remote, storageDeleted, pdb, uploads,
                   directWrite, feInit, doc, pending, flushing, flushBlob,
                   closeCalls, lifecycle, handlers, tasks, disconnected,
                   handlerLevel, webLoaders, slVars>>

\* the client loses its connection
Disconnect(s) ==
    /\ pc[s] = "run"
    /\ ~disconnected[s]
    /\ disconnected' = [disconnected EXCEPT ![s] = TRUE]
    /\ UNCHANGED <<setup, web_only, web, pc, remote, storageDeleted, pdb,
                   uploads, directWrite, feInit, doc, pending, flushing,
                   flushBlob, closeCalls, lifecycle, handlers, tasks,
                   handlerLevel, logs, webLoaders, slVars>>

\* faulty variant: amain returns after the disconnection without closing the store
RunReturn_NoClose(s) ==
    /\ pc[s] = "run"
    /\ disconnected[s]
    /\ pc' = [pc EXCEPT ![s] = "done"]
    /\ UNCHANGED <<setup, web_only, web, remote, storageDeleted, pdb, uploads,
                   directWrite, feInit, doc, pending, flushing, flushBlob,
                   closeCalls, lifecycle, handlers, tasks, disconnected,
                   handlerLevel, logs, webLoaders, slVars>>

\* run_until_disconnected returns; line 638: db.close() is awaited
RunReturn(s) ==
    /\ pc[s] = "run"
    /\ disconnected[s]
    /\ closeCalls' = [closeCalls EXCEPT ![s] = @ + 1]
    /\ pc' = [pc EXCEPT ![s] = "close"]
    /\ UNCHANGED <<setup, web_only, web, remote, storageDeleted, pdb,
                   uploads, directWrite, feInit, doc, pending, flushing,
                   flushBlob, lifecycle, handlers, tasks, disconnected,
                   handlerLevel, logs, webLoaders, slVars>>

\* close() of the front-end returns: it took the write lock, flushed the
\* document and dropped the scheduled flush; amain returns False
CloseDone(s) ==
    /\ pc[s] = "close"
    /\ ~flushing[s]
    /\ remote' = [remote EXCEPT ![s] = json_dumps(doc[s])]
    /\ pending' = [pending EXCEPT ![s] = FALSE]
    /\ pc' = [pc EXCEPT ![s] = "done"]
    /\ UNCHANGED <<setup, web_only, web, storageDeleted, pdb, uploads,
                   directWrite, feInit, doc, flushing, flushBlob, closeCalls,
                   lifecycle, handlers, tasks, disconnected, handlerLevel,
                   logs, webLoaders, slVars>>

\* amain has returned a false value: amain_wrapper (lines 479-487) leaves
\* its loop and 'async with client', which disconnects the client
ClientExit(s) ==
    /\ pc[s] = "done"
    /\ ~disconnected[s]
    /\ disconnected' = [disconnected EXCEPT ![s] = TRUE]
    /\ UNCHANGED <<setup, web_only, web, pc, remote, storageDeleted, pdb,
                   uploads, directWrite, feInit, doc, pending, flushing,
                   flushBlob, closeCalls, lifecycle, handlers, tasks,
                   handlerLevel, logs, webLoaders, slVars>>

----------------------------------------------------------------------------
(* The client's update dispatch: every update gets a task of its own, and a
   task awaits the accepting callbacks one after another *)

\* an update of kind k arrives for session s
Arrive(s, k) ==
    /\ k \in EventKinds
    /\ ~disconnected[s]
    /\ TotalEvents < MaxEvents
    /\ tasks' = [tasks EXCEPT ![s] = Append(@, NewTask(k))]
    /\ UNCHANGED <<setup, web_only, web, pc, remote, storageDeleted, pdb,
                   uploads, directWrite, feInit, doc, pending, flushing,
                   flushBlob, closeCalls, lifecycle, handlers, disconnected,
                   handlerLevel, logs, webLoaders, slVars>>

\* the task of the i-th update starts (tasks start in arrival order) and
\* runs to its first accepting callback
TaskStart(s, i) ==
    /\ i \in 1..Len(tasks[s])
    /\ tasks[s][i].st = "queued"
    /\ \A j \in 1..(i - 1) : tasks[s][j].st # "queued"
    /\ tasks' = [tasks EXCEPT ![s][i] =
                    Advance([@ EXCEPT !.att = handlers[s] # <<>>], handlers[s], 1)]
    /\ UNCHANGED <<setup, web_only, web, pc, remote, storageDeleted, pdb,
                   uploads, directWrite, feInit, doc, pending, flushing,
                   flushBlob, closeCalls, lifecycle, handlers, disconnected,
                   handlerLevel, logs, webLoaders, slVars>>

\* the callback the i-th task awaits returns or raises (the client logs what
\* it raises); the task runs on to its next accepting callback
HandlerReturn(s, i) ==
    /\ i \in 1..Len(tasks[s])
    /\ tasks[s][i].st = "active"
    /\ tasks' = [tasks EXCEPT ![s][i] = Advance(@, handlers[s], @.idx + 1)]
    /\ UNCHANGED <<setup, web_only, web, pc, remote, storageDeleted, pdb,
                   uploads, directWrite, feInit, doc, pending, flushing,
                   flushBlob, closeCalls, lifecycle, handlers, disconnected,
                   handlerLevel, logs, webLoaders, slVars>>

\* a command handler run by the i-th task calls set on the store: the
\* document changes in memory and a flush is scheduled
HandlerSet(s, i, d) ==
    /\ i \in 1..Len(tasks[s])
    /\ d \in Docs
    /\ tasks[s][i].st = "active"
    /\ tasks[s][i].run = "handle_command"
    /\ pc[s] \in {"send_ready", "get_me", "run"}
    /\ doc' = [doc EXCEPT ![s] = d]
    /\ pending' = [pending EXCEPT ![s] = TRUE]
    /\ UNCHANGED <<setup, web_only, web, pc, remote, storageDeleted, pdb,
                   uploads, directWrite, feInit, flushing, flushBlob,
                   closeCalls, lifecycle, handlers, tasks, disconnected,
                   handlerLevel, logs, webLoaders, slVars>>

\* the scheduled flush takes the write lock and starts sending the document
FlushStart(s) ==
    /\ pending[s]
    /\ ~flushing[s]
    /\ pc[s] \in {"send_ready", "get_me", "run"}
    /\ flushing' = [flushing EXCEPT ![s] = TRUE]
    /\ flushBlob' = [flushBlob EXCEPT ![s] = json_dumps(doc[s])]
    /\ pending' = [pending EXCEPT ![s] = FALSE]
    /\ UNCHANGED <<setup, web_only, web, pc, remote, storageDeleted, pdb,
                   uploads, directWrite, feInit, doc, closeCalls, lifecycle,
                   handlers, tasks, disconnected, handlerLevel, logs,
                   webLoaders, slVars>>

\* the write completes and releases the lock
FlushDone(s) ==
    /\ flushing[s]
    /\ remote' = [remote EXCEPT ![s] = flushBlob[s]]
    /\ flushing' = [flushing EXCEPT ![s] = FALSE]
    /\ flushBlob' = [flushBlob EXCEPT ![s] = NoBlob]
    /\ UNCHANGED <<setup, web_only, web, pc, storageDeleted, pdb, uploads,
                   directWrite, feInit, doc, pending, closeCalls, lifecycle,
                   handlers, tasks, disconnected, handlerLevel, logs,
                   webLoaders, slVars>>

----------------------------------------------------------------------------
(* SuperList.__getattribute__, lines 285-307: the collection handed to the
   modules as allclients.  slObjs holds, per member, what calling the
   attribute on it does: return "r1" or "r2", or raise ("fail"). *)

Outcomes == {"r1", "r2", "fail"}

\* the attribute names looked up: one the members have and list has not, and
\* one that list itself has
AttrNames == {"send_message", "count"}

\* hasattr(list, attr), line 291
HasAttrList(attr) == attr = "count"

\* what the attribute is on the members: a coroutine function, a plain
\* function, or a plain value (which the caller reads and does not call)
AttrKinds == {"coroutine", "function", "value"}

\* lines 290-307, the lookup: a name list has yields the list's own attribute
\* and no member is involved; otherwise an empty collection falls out of the
\* for loop and yields None, a value attribute yields the list of the members'
\* values, a coroutine function yields foobar and a plain function the lambda
GetAttribute(objs, attr, kind) ==
    IF HasAttrList(attr) THEN "list_attribute"
    ELSE IF objs = <<>> THEN "None"
    ELSE IF kind = "coroutine" THEN "foobar"
    ELSE IF kind = "function" THEN "lambda"
    ELSE "list"

\* faulty variant: a failing member is recorded as an entry and the calls go on
Collect_CollectFailures(objs, calls, results) ==
    LET i == Len(calls)
    IN [state |-> IF i = Len(objs) THEN "returned" ELSE "running",
        calls |-> calls,
        results |-> Append(results, objs[i])]

\* the call of the last member called comes back inside the list
\* comprehension of line 300 / 303-305: its result is collected, and the list
\* is complete after the last member; what it raises leaves the comprehension
\* and no list is built
Collect(objs, calls, results) ==
    LET i == Len(calls)
    IN IF objs[i] = "fail"
       THEN [state |-> "raised", calls |-> calls, results |-> <<>>]
       ELSE [state |-> IF i = Len(objs) THEN "returned" ELSE "running",
             calls |-> calls,
             results |-> Append(results, objs[i])]

\* the comprehension calls the next member
CallNext(calls) == Append(calls, Len(calls) + 1)

\* allclients.attr is read and, unless it is a value or the list's own
\* attribute, called: None is not callable and the call raises; the lambda
\* starts its comprehension; foobar, awaited, runs up to the await of its
\* first member's call
SLInvoke ==
    /\ slState = "idle"
    /\ LET got == GetAttribute(slObjs, slAttr, slKind)
       IN /\ slRead' = got
          /\ slState' = IF got = "list_attribute" THEN "returned"
                        ELSE IF got = "None"
                        THEN (IF slKind = "value" THEN "returned" ELSE "raised")
                        ELSE IF got = "list" THEN "returned"
                        ELSE IF got = "foobar" THEN "awaiting"
                        ELSE "running"
          /\ slCalls' = IF got = "foobar" THEN CallNext(<<>>) ELSE <<>>
          /\ slResults' = IF got = "list" THEN slObjs ELSE <<>>
    /\ UNCHANGED <<slObjs, slAttr, slKind, mainVars>>

\* lines 303-305: the lambda's comprehension calls the next member, which
\* returns or raises before anything else runs
SLCall ==
    /\ slState = "running"
    /\ LET r == Collect(slObjs, CallNext(slCalls), slResults)
       IN /\ slState' = r.state
          /\ slCalls' = r.calls
          /\ slResults' = r.results
    /\ UNCHANGED <<slObjs, slAttr, slKind, slRead, mainVars>>

\* line 300: the awaited call of a member comes back to foobar; unless it
\* raised or was the last, foobar calls the next member and awaits it
SLAwaited ==
    /\ slState = "awaiting"
    /\ LET r == Collect(slObjs, slCalls, slResults)
       IN /\ slState' = IF r.state = "running" THEN "awaiting" ELSE r.state
          /\ slCalls' = IF r.state = "running" THEN CallNext(r.calls)
                        ELSE r.calls
          /\ slResults' = r.results
    /\ UNCHANGED <<slObjs, slAttr, slKind, slRead, mainVars>>

----------------------------------------------------------------------------
(* Specifications *)

RECURSIVE SeqsUpTo(_, _)
SeqsUpTo(S, n) ==
    IF n = 0 THEN {<<>>}
    ELSE LET shorter == SeqsUpTo(S, n - 1)
         IN shorter \cup {Append(q, x) : q \in shorter, x \in S}

SLIdle ==
    /\ slObjs = <<>>
    /\ slAttr = "send_message"
    /\ slKind = "coroutine"
    /\ slState = "idle"
    /\ slRead = "unread"
    /\ slCalls = <<>>
    /\ slResults = <<>>

\* the state main() leaves when it gathers the amain coroutines: every client
\* is started and connected, nothing of amain has run
MainStart ==
    /\ pc = [s \in Sessions |-> "start"]
    /\ storageDeleted = [s \in Sessions |-> FALSE]
    /\ pdb = [s \in Sessions |-> "None"]
    /\ uploads = [s \in Sessions |-> <<>>]
    /\ directWrite = [s \in Sessions |-> FALSE]
    /\ feInit = [s \in Sessions |-> FALSE]
    /\ doc = [s \in Sessions |-> "doc_empty"]
    /\ pending = [s \in Sessions |-> FALSE]
    /\ flushing = [s \in Sessions |-> FALSE]
    /\ flushBlob = [s \in Sessions |-> NoBlob]
    /\ closeCalls = [s \in Sessions |-> 0]
    /\ lifecycle = [s \in Sessions |-> <<>>]
    /\ handlers = [s \in Sessions |-> <<>>]
    /\ tasks = [s \in Sessions |-> <<>>]
    /\ disconnected = [s \in Sessions |-> FALSE]
    /\ logs = [s \in Sessions |-> {}]
    /\ webLoaders = {}

\* what the remote storage holds when the process starts: nothing, the
\* empty document, a document that sets the log level, or text that does
\* not parse
StartBlobs == {NoBlob, "{}", "{\"friendly-telegram.main\": {\"loglevel\": 10}}", "garbage"}

\* every run main() can start: any arguments, any remote storage content
Init ==
    /\ setup \in BOOLEAN
    /\ web_only \in BOOLEAN
    /\ web \in BOOLEAN
    /\ remote \in [Sessions -> StartBlobs]
    /\ handlerLevel \in {DEBUG, WARNING}
    /\ MainStart
    /\ SLIdle

\* amain of session s, and the loss of its connection
AmainStep(s) ==
    \/ StartDone(s)
    \/ BackendInitDone(s)
    \/ DownloadDone(s)
    \/ BabelfishDoneSetup(s)
    \/ FdbInitDone(s)
    \/ \E r \in ConfigResults : SendReadyDoneSetup(s, r)
    \/ DeleteDone(s)
    \/ UploadDone(s)
    \/ FeInitDone(s)
    \/ BabelfishDone(s)
    \/ \E ok \in BOOLEAN : SendReadyDone(s, ok)
    \/ \E ok \in BOOLEAN : GetMeDone(s, ok)
    \/ Disconnect(s)
    \/ RunReturn(s)
    \/ CloseDone(s)
    \/ ClientExit(s)

\* the steps amain takes only with a web object, or without web_only
WebStep(s) ==
    \/ WebAddDone(s)
    \/ WebStartDone(s)

\* the client's update dispatch for session s and what the callbacks do
EventStep(s) ==
    \/ \E k \in EventKinds : Arrive(s, k)
    \/ \E i \in 1..MaxEvents : TaskStart(s, i)
    \/ \E i \in 1..MaxEvents : HandlerReturn(s, i)
    \/ \E i \in 1..MaxEvents, d \in Docs : HandlerSet(s, i, d)
    \/ FlushStart(s)
    \/ FlushDone(s)

\* all sessions of the process start up, run and shut down concurrently,
\* with no update arriving
Next == \E s \in Sessions : AmainStep(s) \/ WebStep(s) \/ DispInitDone(s)

Spec == Init /\ [][Next]_vars

\* one session on its own (the others have not started), in either mode,
\* without a web object, with updates arriving
InitSession ==
    /\ setup \in BOOLEAN
    /\ web_only \in BOOLEAN
    /\ web = FALSE
    /\ remote \in [Sessions -> {NoBlob, "{\"reevaluate_edits\": false}"}]
    /\ \A s \in Sessions \ {1} : remote[s] = NoBlob
    /\ handlerLevel = WARNING
    /\ MainStart
    /\ SLIdle

NextSession == AmainStep(1) \/ DispInitDone(1) \/ EventStep(1)

SpecSession == InitSession /\ [][NextSession]_vars

\* the broadcast collection on its own: any collection of up to MaxClients
\* members, any kind of attribute
InitSL ==
    /\ setup = FALSE
    /\ web_only = FALSE
    /\ web = FALSE
    /\ remote = [s \in Sessions |-> NoBlob]
    /\ handlerLevel = WARNING
    /\ MainStart
    /\ slObjs \in SeqsUpTo(Outcomes, MaxClients)
    /\ slAttr \in AttrNames
    /\ slKind \in AttrKinds
    /\ slState = "idle"
    /\ slRead = "unread"
    /\ slCalls = <<>>
    /\ slResults = <<>>

NextSL == SLInvoke \/ SLCall \/ SLAwaited

SpecSL == InitSL /\ [][NextSL]_vars

----------------------------------------------------------------------------
(* Properties *)

TasksOf(s) == {tasks[s][i] : i \in 1..Len(tasks[s])}

\* the task is inside handle_command
CommandOpen(t) == t.run = "handle_command"

\* the task's handle_command invocation has completed
CommandDone(t) == "handle_command" \in t.inv /\ t.run # "handle_command"

\* C1: within one session no handle_command invocation starts while an
\* earlier one has not completed, and the invocations complete in the order
\* the events arrived.
C1_SingleConsumerFifo ==
    \A s \in Sessions : \A i, j \in 1..Len(tasks[s]) :
        i < j =>
            /\ ~(CommandOpen(tasks[s][i]) /\ CommandOpen(tasks[s][j]))
            /\ ~(CommandOpen(tasks[s][i]) /\ CommandDone(tasks[s][j]))

\* the callbacks an event of the given kind is routed to
RoutedTo(kind) ==
    CASE kind = "NewMessage" -> {"handle_incoming", "handle_command"}
      [] kind = "NewMessageFwd" -> {"handle_incoming"}
      [] kind = "ChatAction" -> {"handle_incoming"}
      [] kind = "MessageEdited" -> {"handle_command"}

\* C2: handle_incoming is invoked for new-message and chat-action events and
\* never for edited-message events; handle_command is invoked for
\* non-forwarded new-message and for edited-message events and never for
\* chat-action events; an event dispatched with the handlers attached gets
\* every callback its kind is routed to.
C2_RoutingByKind ==
    \A s \in Sessions : \A t \in TasksOf(s) :
        /\ "handle_incoming" \in t.inv =>
               t.ev \in {"NewMessage", "NewMessageFwd", "ChatAction"}
        /\ "handle_command" \in t.inv =>
               t.ev \in {"NewMessage", "MessageEdited"}
        /\ t.st = "done" /\ t.att => t.inv = RoutedTo(t.ev)

\* an edited message and a chat action have both been dispatched to the
\* attached handlers
C2_Witness ==
    \E s \in Sessions : \E t, u \in TasksOf(s) :
        /\ t.st = "done" /\ t.att /\ t.ev = "MessageEdited"
        /\ u.st = "done" /\ u.att /\ u.ev = "ChatAction"

\* C3 as stated: an edited-message event reaches handle_command only if the
\* session's document has the re-evaluate-edits setting on.
C3_EditsGatedBySetting ==
    \A s \in Sessions : \A t \in TasksOf(s) :
        t.ev = "MessageEdited" /\ "handle_command" \in t.inv
            => ReevaluateEdits(doc[s])

\* C3 (amended): an edited-message event dispatched with the handlers
\* attached is always passed to handle_command; the routing consults no
\* setting.
C3_EditsAlwaysDispatched ==
    \A s \in Sessions : \A t \in TasksOf(s) :
        t.ev = "MessageEdited" /\ t.att /\ t.st # "queued"
            => "handle_command" \in t.inv

\* an edit reached handle_command although the setting is off
C3_Witness ==
    \E s \in Sessions : \E t \in TasksOf(s) :
        /\ t.ev = "MessageEdited"
        /\ "handle_command" \in t.inv
        /\ ~ReevaluateEdits(doc[s])

\* C4 as stated: no write of a session's remote document bypasses the store
\* front-end, and two writes for one session are never in progress together.
C4_AllWritesThroughFrontend ==
    \A s \in Sessions : ~directWrite[s]

\* C4 (amended): in normal mode amain never writes the remote document
\* itself; in setup mode it writes it with one direct db.do_upload that
\* bypasses the front-end, only when the configurator returned a document,
\* and never while a front-end write is in progress.
C4_DirectWriteOnlyInSetup ==
    \A s \in Sessions :
        /\ directWrite[s] =>
              /\ setup
              /\ pc[s] = "upload"
              /\ pdb[s] \in Docs
              /\ ~flushing[s]
        /\ Len(uploads[s]) <= 1
        /\ uploads[s] # <<>> => setup /\ pc[s] = "done" /\ ~directWrite[s]

\* a direct upload of the configurator's document is in progress
C4_Witness ==
    \E s \in Sessions : directWrite[s] /\ pdb[s] \in Docs /\ feInit[s]

\* everything of session s that only its own amain, client and store touch
Local(s) ==
    <<pc[s], remote[s], storageDeleted[s], pdb[s], uploads[s], directWrite[s],
      feInit[s], doc[s], pending[s], flushing[s], flushBlob[s], closeCalls[s],
      lifecycle[s], handlers[s], tasks[s], disconnected[s], logs[s]>>

\* C5 as stated: a step of one session changes nothing another session
\* reads: it changes that session's own state only, and no state shared by
\* the sessions.
C5_NoSharedMutableState ==
    [][/\ \A s, t \in Sessions :
             s # t /\ Local(s)' # Local(s) => Local(t)' = Local(t)
       /\ handlerLevel' = handlerLevel
       /\ webLoaders' = webLoaders]_vars

\* C5 (amended): a step of one session changes none of another session's
\* store, registry, handlers, tasks or start-up position; what the sessions
\* share besides the broadcast collection is the level of the process-wide
\* logging handlers and the web object.
C5_OwnStateOnly ==
    [][\A s, t \in Sessions :
          s # t /\ Local(s)' # Local(s) => Local(t)' = Local(t)]_vars

\* two sessions are past their start-up at once, each with its own store
\* loaded and its own handlers attached
C5_Witness ==
    \E s, t \in Sessions :
        /\ s # t
        /\ pc[s] = "send_ready" /\ pc[t] = "run"
        /\ handlers[s] # <<>> /\ handlers[t] # <<>>
        /\ feInit[s] /\ feInit[t]

\* position of the first x in l, 0 if there is none
Idx(l, x) ==
    LET c == {i \in 1..Len(l) : l[i] = x}
    IN IF c = {} THEN 0 ELSE CHOOSE i \in c : \A k \in c : i <= k

Count(l, x) == Cardinality({i \in 1..Len(l) : l[i] = x})

\* amain is at or past the await of send_ready
AtOrPastSendReady(s) ==
    pc[s] \in {"send_ready_setup", "delete", "upload", "send_ready", "get_me",
               "run", "close", "done"}

\* C6: in every start-up, setup or normal, register_all comes first, then
\* send_config, then send_ready, none skipped or repeated, and the store's
\* init() has completed before send_config and send_ready.
C6_LifecycleOrder ==
    \A s \in Sessions :
        LET l == lifecycle[s]
            r == Idx(l, "register_all")
            c == Idx(l, "send_config")
            y == Idx(l, "send_ready")
            n == Idx(l, "init")
        IN /\ c > 0 => r > 0 /\ r < c /\ n > 0 /\ n < c
           /\ y > 0 => c > 0 /\ c < y
           /\ \A x \in {"register_all", "send_config", "send_ready", "init"} :
                  Count(l, x) <= 1
           /\ AtOrPastSendReady(s) <=> y > 0
           /\ y > 0 => feInit[s]

\* a setup-mode start-up and a normal-mode start-up cannot share a run; the
\* witness is a finished setup run next to one still readying its modules
C6_Witness ==
    \E s, t \in Sessions :
        /\ pc[s] = "done" /\ Idx(lifecycle[s], "send_ready") = 4
        /\ pc[t] = "send_ready_setup"

\* the blob amain or the front-end loaded does not parse, or is absent
BadBlob(b) == json_loads(b).raised # "no"

\* C7: when the downloaded blob is absent, corrupt or unparsable, start-up
\* goes on with the empty document and a warning is logged.
C7_LoadFailsSoftWithWarning ==
    \A s \in Sessions :
        /\ pc[s] \in {"babelfish_setup", "fdb_init", "send_ready_setup"}
              /\ BadBlob(remote[s])
              => pdb[s] = "doc_empty" /\ "store corrupt" \in logs[s]
        /\ pc[s] = "babelfish" /\ BadBlob(remote[s])
              => doc[s] = "doc_empty" /\ "store corrupt" \in logs[s]

\* C8 as stated: every run whose store was initialised with init() has
\* called close() on it exactly once when amain returns.
C8_InitImpliesClosed ==
    \A s \in Sessions : pc[s] = "done" /\ feInit[s] => closeCalls[s] = 1

\* C8 (amended): a normal-mode run calls close() on its store exactly once,
\* after the client has disconnected and before amain returns; a setup-mode
\* run initialises its front-end and returns without closing it.
C8_ClosedOnceInNormalMode ==
    \A s \in Sessions :
        /\ closeCalls[s] <= 1
        /\ closeCalls[s] = 1 => ~setup /\ disconnected[s] /\ feInit[s]
        /\ pc[s] = "done" => closeCalls[s] = (IF setup THEN 0 ELSE 1)
        /\ pc[s] = "close" => closeCalls[s] = 1

\* a normal-mode run has returned with its store closed
C8_Witness ==
    \E s \in Sessions :
        pc[s] = "done" /\ ~setup /\ closeCalls[s] = 1 /\ disconnected[s]

\* the sequence <<1, ..., n>>
UpTo(n) == [i \in 1..n |-> i]

\* the attribute is fanned out to the members and called
FannedOut == ~HasAttrList(slAttr) /\ slKind # "value"

\* C9 as stated: the action is called once on every member, in collection
\* order, and a list with one entry per member (its result or its failure)
\* is returned, whatever fails.
C9_OneEntryPerSession ==
    FannedOut /\ slState \in {"returned", "raised"} =>
        /\ slState = "returned"
        /\ slCalls = UpTo(Len(slObjs))
        /\ slResults = slObjs

\* C9 (amended): an action that list does not itself have is called on the
\* members in collection order, one after another, each call coming back
\* before the next is made; if no call fails, a list with one entry per member
\* in that order is returned; the first failure propagates to the caller, no
\* list is returned and the members after the failing one are not called.
\* On an empty collection the attribute is None and calling it raises.
C9_StopsAtFirstFailure ==
    FannedOut =>
        /\ slCalls = UpTo(Len(slCalls))
        /\ Len(slCalls) <= Len(slObjs)
        /\ \A i \in 1..(Len(slCalls) - 1) : slObjs[i] # "fail"
        /\ slState = "returned" =>
              /\ slCalls = UpTo(Len(slObjs))
              /\ slResults = slObjs
              /\ \A i \in 1..Len(slObjs) : slObjs[i] # "fail"
        /\ slState = "raised" =>
              /\ slResults = <<>>
              /\ \/ slObjs = <<>> /\ slRead = "None"
                 \/ /\ slCalls # <<>>
                    /\ slObjs[Len(slCalls)] = "fail"
        /\ slState = "running" =>
              /\ Len(slCalls) < Len(slObjs)
              /\ slResults = SubSeq(slObjs, 1, Len(slCalls))
        /\ slState = "awaiting" =>
              /\ slCalls # <<>>
              /\ slResults = SubSeq(slObjs, 1, Len(slCalls) - 1)

\* the second of three members failed: the third was never called
C9_Witness ==
    /\ FannedOut
    /\ slKind = "coroutine"
    /\ slState = "raised"
    /\ Len(slObjs) = 3
    /\ slCalls = <<1, 2>>

\* C10: no event is being dispatched to handle_incoming or handle_command
\* while the session's send_ready has not completed.
C10_NoDispatchBeforeReady ==
    \A s \in Sessions : \A t \in TasksOf(s) :
        t.run # "none" => pc[s] \in {"get_me", "run", "close", "done"}

\* run_config has returned in this setup-mode run: pdb[s] is what it returned
ConfiguratorReturned(s) == setup /\ pc[s] \in {"delete", "upload", "done"}

\* C11: a setup-mode run deletes the session's remote storage exactly when
\* the configurator returned no document, and then uploads nothing;
\* otherwise it uploads exactly the returned document, once, and does not
\* delete the storage.  A normal-mode run never deletes the storage, and a
\* setup-mode run never attaches the dispatcher's event handlers.
C11_SetupDeleteOrUpload ==
    \A s \in Sessions :
        /\ ConfiguratorReturned(s) =>
              /\ pc[s] = "delete" <=> (pdb[s] = "None" /\ ~storageDeleted[s])
              /\ pc[s] = "upload" => pdb[s] \in Docs /\ directWrite[s]
              /\ storageDeleted[s] => pdb[s] = "None" /\ uploads[s] = <<>>
              /\ pdb[s] = "None" => uploads[s] = <<>> /\ ~directWrite[s]
              /\ pc[s] = "done" =>
                    /\ storageDeleted[s] <=> pdb[s] = "None"
                    /\ pdb[s] # "None" =>
                          /\ uploads[s] = <<json_dumps(pdb[s])>>
                          /\ remote[s] = json_dumps(pdb[s])
                          /\ ParseDownloaded(remote[s]) = pdb[s]
        /\ ~ConfiguratorReturned(s) => ~storageDeleted[s] /\ uploads[s] = <<>>
        /\ ~setup => pc[s] # "delete"
        /\ setup => handlers[s] = <<>>

\* one setup-mode session has deleted its storage, another has uploaded the
\* document its configurator returned
C11_Witness ==
    \E s, t \in Sessions :
        /\ setup
        /\ pc[s] = "done" /\ storageDeleted[s] /\ uploads[s] = <<>>
        /\ pc[t] = "done" /\ ~storageDeleted[t] /\ pdb[t] = "doc_debug"
        /\ uploads[t] = <<"{\"friendly-telegram.main\": {\"loglevel\": 10}}">>

====
